---- MODULE Spec2Model ----
(***************************************************************************)
(* IndexedBlock of chain/src/indexed_block.rs: construction from a raw     *)
(* block (from_raw, from_header_and_txns, new), the accessors (hash,       *)
(* number, block_id, merkle_root_hash, into_raw_block) and                 *)
(* verify_merkle_root_hash with the historical whitelist.                  *)
(*                                                                         *)
(* Representation.  A byte is 0..255 and a byte string a sequence of them. *)
(* Option<T> is a sequence of length at most one: <<>> is None, <<x>> is    *)
(* Some(x).  An i64 is kept as three limbs [hi, mid, lo] with value        *)
(* hi*2^48 + mid*2^24 + lo, hi in -2^15..2^15-1, mid and lo in 0..2^24-1,   *)
(* so that all 64 bits are kept while every intermediate stays inside the  *)
(* model checker's integer range.                                          *)
(***************************************************************************)
EXTENDS Integers, Sequences, FiniteSets, TLC

VARIABLES
    treeRule,   \* the merkle library's implementation-defined rules
    whitelist,  \* the lazy static BLOCK_WHITELIST: <<>> until first use
    block,      \* the IndexedBlock in hand: <<>> or <<b>>
    rawOut,     \* the Block returned by into_raw_block: <<>> or <<r>>
    ret,        \* the value the last accessor returned
    diag,       \* the lines the last call wrote to standard error
    lastOp,     \* the operation that ran last
    aborted,    \* the last operation panicked
    ctor,       \* the constructor this block came from
    input,      \* the raw Block handed to the last from_raw: <<>> or <<r>>
    consumed,   \* the IndexedBlock the last into_raw_block consumed
    passes      \* how many times from_raw ran on this block's lineage

vars == <<treeRule, whitelist, block, rawOut, ret, diag, lastOp, aborted,
          ctor, input, consumed, passes>>

-----------------------------------------------------------------------------
(* Bounds of the model *)

MaxTxns == 3
MaxPasses == 2

-----------------------------------------------------------------------------
(* Bytes, options, 64-bit integers *)

H256Len == 32
PrefixLen == 8

Byte == 0..255
None == <<>>
Some(x) == <<x>>
IsSome(o) == Len(o) = 1
Unwrap(o) == o[1]

Pow8 == 2 * 128
Pow16 == 256 * 256
Pow24 == 256 * 256 * 256

I64(h, m, l) == [hi |-> h, mid |-> m, lo |-> l]
SmallI64(n) == IF n >= 0 THEN I64(0, 0, n) ELSE I64(-1, Pow24 - 1, Pow24 + n)

Repeat(b, n) == [i \in 1..n |-> b]

\* BE::read_u64(bytes) as i64
read_u64_as_i64_LE(bytes) ==
    LET u == bytes[8] * Pow8 + bytes[7]
    IN  I64(IF u >= Pow16 \div 2 THEN u - Pow16 ELSE u,
            bytes[6] * Pow16 + bytes[5] * Pow8 + bytes[4],
            bytes[3] * Pow16 + bytes[2] * Pow8 + bytes[1])
read_u64_as_i64(bytes) ==
    LET u == bytes[1] * Pow8 + bytes[2]
    IN  I64(IF u >= Pow16 \div 2 THEN u - Pow16 ELSE u,
            bytes[3] * Pow16 + bytes[4] * Pow8 + bytes[5],
            bytes[6] * Pow16 + bytes[7] * Pow8 + bytes[8])

\* BE::write_u64(buf, n as u64): the eight bytes written
write_u64(n) ==
    LET u == IF n.hi < 0 THEN n.hi + Pow16 ELSE n.hi
    IN  << u \div Pow8, u % Pow8,
           n.mid \div Pow16, (n.mid \div Pow8) % Pow8, n.mid % Pow8,
           n.lo \div Pow16, (n.lo \div Pow8) % Pow8, n.lo % Pow8 >>

-----------------------------------------------------------------------------
(* The hash primitive and the canonical encoder *)

\* the weighted byte at position i of buf, 0 past position hi
Weighted(buf, i, hi) ==
    IF i > hi THEN 0
    ELSE ((buf[i] + 1) * (1 + ((i * 2654435) % 8388592))) % 8388593

RECURSIVE Absorb(_, _, _)
\* the checksum of buf[lo..hi]: every byte weighted by its position
Absorb(buf, lo, hi) ==
    IF hi - lo < 4
    THEN (Weighted(buf, lo, hi) + Weighted(buf, lo + 1, hi)
          + Weighted(buf, lo + 2, hi) + Weighted(buf, lo + 3, hi)) % 8388593
    ELSE LET m == (lo + hi) \div 2
         IN  (Absorb(buf, lo, m) + Absorb(buf, m + 1, hi)) % 8388593

\* the 32 bytes of a digest, spread from the checksum s
Digest(s) ==
    [i \in 1..H256Len |->
        ((IF i % 3 = 0 THEN s % Pow8
          ELSE IF i % 3 = 1 THEN (s \div Pow8) % Pow8
          ELSE s \div Pow16) + 37 * i) % Pow8]

\* crypto::sha256: a deterministic 32-byte digest of a byte string
sha256(buf) ==
    Digest((Absorb(buf, 1, Len(buf)) + 7 + 611953 * Len(buf)) % 8388593)

\* prost Message::encode of a Transaction
EncodeTransaction(tx) == <<10, Len(tx.raw_data)>> \o tx.raw_data

\* prost Message::encode of a BlockHeader's raw_data
EncodeHeaderRaw(rd) ==
    <<8, rd.timestamp>>
    \o (IF rd.merkle_root_hash = <<>> THEN <<>>
        ELSE <<18, Len(rd.merkle_root_hash)>> \o rd.merkle_root_hash)
    \o <<56>> \o write_u64(rd.number)

-----------------------------------------------------------------------------
(* crate::merkle_root::MerkleTree *)

TreeRules == [odd : {"duplicate_last", "promote_last"},
              empty : {"zero", "hash_of_nothing"}]

RECURSIVE MerkleLevel(_, _)
\* one level up: adjacent nodes are hashed in pairs, left to right
MerkleLevel(rule, nodes) ==
    IF Len(nodes) = 0 THEN <<>>
    ELSE IF Len(nodes) = 1
         THEN IF rule.odd = "duplicate_last"
              THEN <<sha256(nodes[1] \o nodes[1])>>
              ELSE <<nodes[1]>>
         ELSE <<sha256(nodes[1] \o nodes[2])>>
              \o MerkleLevel(rule, SubSeq(nodes, 3, Len(nodes)))

RECURSIVE MerkleReduce(_, _)
MerkleReduce(rule, nodes) ==
    IF Len(nodes) = 1 THEN nodes[1]
    ELSE MerkleReduce(rule, MerkleLevel(rule, nodes))

\* MerkleTree::from_vec(hashes).root_hash()
MerkleTreeRoot(rule, hashes) ==
    IF Len(hashes) = 0
    THEN IF rule.empty = "zero" THEN Repeat(0, H256Len) ELSE sha256(<<>>)
    ELSE MerkleReduce(rule, hashes)

-----------------------------------------------------------------------------
(* IndexedTransaction, IndexedBlockHeader *)

\* IndexedTransaction::from_raw: the raw transaction with its hash
IndexedTransaction_from_raw(tx) ==
    [hash |-> sha256(EncodeTransaction(tx)), raw |-> tx]

\* IndexedBlockHeader::from_raw: the raw header with the block hash, which
\* carries the block number in its first eight bytes
IndexedBlockHeader_from_raw(h) ==
    LET rd == Unwrap(h.raw_data)
        d  == sha256(EncodeHeaderRaw(rd))
    IN  [hash |-> write_u64(rd.number) \o SubSeq(d, PrefixLen + 1, H256Len),
         raw  |-> h]

-----------------------------------------------------------------------------
(* indexed_block.rs *)

BLOCK_WHITELIST ==
    { 1102553, 1103364, 1103650, 1104274, 1104326, 1104948, 1105494, 1106300,
      1106888, 1107730, 1110468, 1110780, 1110832, 1111066, 1111222, 1111430,
      1111508, 1111818, 1111896, 1111922, 1111966, 1112021, 1112026, 1112052,
      1112078, 1112099, 1112104, 1112122, 1112130, 1112156, 1112564, 1112668,
      1112754, 1113222, 1114106, 1114124, 1114205, 1114444, 1114522, 1114548,
      1114938, 1115536, 1115640, 1115788, 1115822, 1116264, 1116282, 1116308,
      1116386, 1116706, 1116732, 1116758, 1116984, 1117018, 1117460, 1117668,
      1117694, 1117928, 1118050, 1118292, 1118370, 1118604, 1118758, 1118810,
      1118914, 1118992, 1119408, 1119460, 1119486, 1119642, 1119660, 1119668,
      1119772, 1120032, 1120084, 1120136, 1120180, 1120344, 1120370, 1120388,
      1120422, 1121124, 1121228, 1121402, 1121696, 1121852, 1122736, 1123022,
      1123568, 1123638, 1123750, 1124166, 1124756, 1124990, 1125336, 1125518,
      1125750, 1125846, 1126192, 1126314, 1126340, 1126582, 1127128, 1127536,
      1128272, 1129000, 1129858, 1129910, 1129962, 1130118, 1130690, 1131028,
      1131626, 1132922, 1132941, 1132976, 1133084, 1134406, 1135135, 1135513,
      1135675, 1135702, 1135837, 1135918, 1135972 }

\* BLOCK_WHITELIST.contains(&n) for an i64 n
WhitelistContains(set, n) == n.hi = 0 /\ n.mid = 0 /\ n.lo \in set

\* get_transaction_hash_for_merkle_root
get_transaction_hash_for_merkle_root(tx) == sha256(EncodeTransaction(tx))

\* merkle_root(&transactions)
merkle_root(rule, transactions) ==
    MerkleTreeRoot(rule,
        [i \in 1..Len(transactions) |->
            get_transaction_hash_for_merkle_root(transactions[i].raw)])

\* what a call comes to: a panic, or a returned value
Panic == [panics |-> TRUE, value |-> None]
Returned(v) == [panics |-> FALSE, value |-> Some(v)]

\* IndexedBlock::new
new(header, transactions) == [header |-> header, transactions |-> transactions]

\* from_raw: transactions.into_iter().map(IndexedTransaction::from_raw)
IndexTransactions(txns) ==
    [i \in 1..Len(txns) |-> IndexedTransaction_from_raw(txns[i])]

\* from_raw: the header with an empty merkle_root_hash filled in
Backfilled(rule, h, transactions) ==
    IF Unwrap(h.raw_data).merkle_root_hash = <<>>
    THEN [h EXCEPT !.raw_data = Some([Unwrap(h.raw_data) EXCEPT
                        !.merkle_root_hash = merkle_root(rule, transactions)])]
    ELSE h

DefaultHeaderRaw == [number |-> I64(0, 0, 0), merkle_root_hash |-> <<>>, timestamp |-> 0]
Reversed(seq) == [i \in 1..Len(seq) |-> seq[Len(seq) + 1 - i]]

from_raw_AlwaysOverwrite(rule, b) ==
    IF ~IsSome(b.block_header) THEN Panic
    ELSE IF ~IsSome(Unwrap(b.block_header).raw_data) THEN Panic
    ELSE LET transactions == IndexTransactions(b.transactions)
             h == Unwrap(b.block_header)
         IN  Returned(new(IndexedBlockHeader_from_raw(
                 [h EXCEPT !.raw_data = Some([Unwrap(h.raw_data) EXCEPT
                        !.merkle_root_hash = merkle_root(rule, transactions)])]),
                 transactions))
from_raw_HashBeforeBackfill(rule, b) ==
    IF ~IsSome(b.block_header) THEN Panic
    ELSE IF ~IsSome(Unwrap(b.block_header).raw_data) THEN Panic
    ELSE LET transactions == IndexTransactions(b.transactions)
             h == Unwrap(b.block_header)
         IN  Returned(new([hash |-> IndexedBlockHeader_from_raw(h).hash,
                           raw  |-> Backfilled(rule, h, transactions)],
                          transactions))
from_raw_NoBackfill(rule, b) ==
    IF ~IsSome(b.block_header) THEN Panic
    ELSE IF ~IsSome(Unwrap(b.block_header).raw_data) THEN Panic
    ELSE Returned(new(IndexedBlockHeader_from_raw(Unwrap(b.block_header)),
                      IndexTransactions(b.transactions)))
from_raw_ReversesTransactions(rule, b) ==
    IF ~IsSome(b.block_header) THEN Panic
    ELSE IF ~IsSome(Unwrap(b.block_header).raw_data) THEN Panic
    ELSE LET transactions == Reversed(IndexTransactions(b.transactions))
         IN  Returned(new(IndexedBlockHeader_from_raw(
                              Backfilled(rule, Unwrap(b.block_header), transactions)),
                          transactions))
from_raw_DefaultHeader(rule, b) ==
    LET transactions == IndexTransactions(b.transactions)
        h == IF IsSome(b.block_header) THEN Unwrap(b.block_header)
             ELSE [raw_data |-> Some(DefaultHeaderRaw)]
    IN  IF ~IsSome(h.raw_data) THEN Panic
        ELSE Returned(new(IndexedBlockHeader_from_raw(Backfilled(rule, h, transactions)),
                          transactions))
from_raw_DefaultRawData(rule, b) ==
    IF ~IsSome(b.block_header) THEN Panic
    ELSE LET transactions == IndexTransactions(b.transactions)
             h == IF IsSome(Unwrap(b.block_header).raw_data) THEN Unwrap(b.block_header)
                  ELSE [raw_data |-> Some(DefaultHeaderRaw)]
         IN  Returned(new(IndexedBlockHeader_from_raw(Backfilled(rule, h, transactions)),
                          transactions))
\* IndexedBlock::from_raw
from_raw(rule, b) ==
    \* block_header.unwrap()
    IF ~IsSome(b.block_header) THEN Panic
    \* block_header.raw_data.as_ref().unwrap()
    ELSE IF ~IsSome(Unwrap(b.block_header).raw_data) THEN Panic
    ELSE LET transactions == IndexTransactions(b.transactions)
         IN  Returned(new(IndexedBlockHeader_from_raw(
                              Backfilled(rule, Unwrap(b.block_header), transactions)),
                          transactions))

\* IndexedBlock::from_header_and_txns
from_header_and_txns(rule, header, txns) ==
    from_raw(rule, [block_header |-> Some(header), transactions |-> txns])

\* IndexedBlock::hash
hash(b) == b.header.hash

\* IndexedBlock::number
number(b) == read_u64_as_i64(SubSeq(b.header.hash, 1, PrefixLen))

\* IndexedBlock::block_id
block_id(b) == [number |-> number(b), hash |-> hash(b)]

into_raw_block_ClearsRoot(b) ==
    [block_header |-> Some([raw_data |->
        IF IsSome(b.header.raw.raw_data)
        THEN Some([Unwrap(b.header.raw.raw_data) EXCEPT !.merkle_root_hash = <<>>])
        ELSE None]),
     transactions |-> [i \in 1..Len(b.transactions) |-> b.transactions[i].raw]]
\* IndexedBlock::into_raw_block
into_raw_block(b) ==
    [block_header |-> Some(b.header.raw),
     transactions |-> [i \in 1..Len(b.transactions) |-> b.transactions[i].raw]]

\* IndexedBlock::merkle_root_hash
merkle_root_hash(b) ==
    \* raw_data.as_ref().unwrap()
    IF ~IsSome(b.header.raw.raw_data) THEN Panic
    ELSE Returned(Unwrap(b.header.raw.raw_data).merkle_root_hash)

\* verify_merkle_root_hash: what it returns, the lines it writes to standard
\* error, and self after the call
Verdict(value, lines, self) == [value |-> value, lines |-> lines, self |-> self]

verify_merkle_root_hash_Repairs(set, rule, b) ==
    LET stored   == merkle_root_hash(b)
        computed == merkle_root(rule, b.transactions)
    IN  IF stored.panics THEN Panic
        ELSE IF WhitelistContains(set, number(b))
        THEN Returned(Verdict(TRUE,
                << <<"whitelist", number(b), Unwrap(stored.value) = computed>> >>, b))
        ELSE IF Unwrap(stored.value) = computed
        THEN Returned(Verdict(TRUE, <<>>, b))
        ELSE IF Len(Unwrap(stored.value)) # H256Len THEN Panic
        ELSE Returned(Verdict(FALSE,
                << <<"block saved", Unwrap(stored.value)>>, <<"calculated", computed>> >>,
                [b EXCEPT !.header.raw.raw_data =
                    Some([Unwrap(b.header.raw.raw_data) EXCEPT
                            !.merkle_root_hash = computed])]))
\* IndexedBlock::verify_merkle_root_hash
verify_merkle_root_hash(set, rule, b) ==
    LET stored   == merkle_root_hash(b)
        computed == merkle_root(rule, b.transactions)
    IN  \* both branches read self.merkle_root_hash() before they return
        IF stored.panics THEN Panic
        ELSE IF WhitelistContains(set, number(b))
        THEN Returned(Verdict(TRUE,
                << <<"whitelist", number(b), Unwrap(stored.value) = computed>> >>, b))
        ELSE IF Unwrap(stored.value) = computed
        THEN Returned(Verdict(TRUE, <<>>, b))
        \* H256::from_slice(self.merkle_root_hash()) asserts a 32-byte slice
        ELSE IF Len(Unwrap(stored.value)) # H256Len THEN Panic
        ELSE Returned(Verdict(FALSE,
                << <<"block saved", Unwrap(stored.value)>>, <<"calculated", computed>> >>,
                b))

-----------------------------------------------------------------------------
(* The values the operations are applied to *)

TxA == [raw_data |-> <<1>>]
TxB == [raw_data |-> <<2, 3>>]
Transactions == {TxA, TxB}

\* the transaction lists: both alternations of the two transactions, cut at
\* every length up to MaxTxns
Alternate(first, second, n) == [i \in 1..n |-> IF i % 2 = 1 THEN first ELSE second]
TxLists ==
    {Alternate(TxA, TxB, n) : n \in 0..MaxTxns}
    \cup {Alternate(TxB, TxA, n) : n \in 0..MaxTxns}

Junk32 == Repeat(170, H256Len)
RootFields == {<<>>, <<1>>, Junk32}

WhitelistedNumber == SmallI64(1102553)
HeaderNumbers == {SmallI64(5), WhitelistedNumber, SmallI64(-1)}

HeaderRaw(n, root) == [number |-> n, merkle_root_hash |-> root, timestamp |-> 7]

\* proto2::chain::BlockHeader
BlockHeaders ==
    {[raw_data |-> None]}
    \cup {[raw_data |-> Some(HeaderRaw(n, r))] : n \in HeaderNumbers, r \in RootFields}

\* proto2::chain::Block
RawBlocks ==
    [block_header : {None} \cup {Some(h) : h \in BlockHeaders},
     transactions : TxLists]

HashPrefixes ==
    { write_u64(SmallI64(5)), write_u64(WhitelistedNumber),
      <<0, 0, 0, 0, 1, 16, 210, 217>>, <<1, 2, 3, 4, 5, 6, 7, 8>>,
      <<128, 0, 0, 0, 0, 0, 0, 1>>, Repeat(255, PrefixLen) }
HashTails == {Repeat(0, H256Len - PrefixLen), Repeat(171, H256Len - PrefixLen)}
Hashes == {p \o t : p \in HashPrefixes, t \in HashTails}

\* the IndexedBlockHeader values handed to new() with the transactions txs:
\* every hash over one header, and every header under two of the hashes
IndexedHeaders(rule, txs) ==
    LET good == HeaderRaw(SmallI64(5), merkle_root(rule, txs))
    IN  [hash : Hashes, raw : {[raw_data |-> Some(good)]}]
        \cup [hash : {write_u64(SmallI64(5)) \o Repeat(171, H256Len - PrefixLen),
                      write_u64(WhitelistedNumber) \o Repeat(171, H256Len - PrefixLen)},
              raw  : {[raw_data |-> None]}
                     \cup {[raw_data |-> Some(HeaderRaw(SmallI64(5), r))] :
                             r \in {<<1>>, Junk32}}]

IndexedTxLists ==
    {[i \in 1..Len(t) |-> IndexedTransaction_from_raw(t[i])] : t \in TxLists}

NoRet == [ok |-> FALSE, number |-> I64(0, 0, 0), bytes |-> <<>>]

-----------------------------------------------------------------------------
(* The state machine: one block's life, from a constructor to its consumption *)

Init ==
    /\ treeRule \in TreeRules
    /\ whitelist = None
    /\ block = None
    /\ rawOut = None
    /\ ret = NoRet
    /\ diag = <<>>
    /\ lastOp = "init"
    /\ aborted = FALSE
    /\ ctor = "none"
    /\ input = None
    /\ consumed = None
    /\ passes = 0

\* the state after the constructor op came to r on the raw block b
Construct(r, b, op) ==
    /\ block' = r.value
    /\ aborted' = r.panics
    /\ input' = Some(b)
    /\ rawOut' = None
    /\ passes' = passes + 1
    /\ lastOp' = op
    /\ ctor' = "from_raw"
    /\ ret' = NoRet
    /\ diag' = <<>>
    /\ UNCHANGED <<treeRule, whitelist, consumed>>

\* IndexedBlock::from_raw on a block from the wire
FromRaw ==
    /\ lastOp = "init"
    /\ \E b \in RawBlocks : Construct(from_raw(treeRule, b), b, "from_raw")

\* IndexedBlock::from_header_and_txns
FromHeaderAndTxns ==
    /\ lastOp = "init"
    /\ \E h \in BlockHeaders, txns \in TxLists :
         Construct(from_header_and_txns(treeRule, h, txns),
                   [block_header |-> Some(h), transactions |-> txns],
                   "from_header_and_txns")

\* IndexedBlock::new on parts indexed upstream
New ==
    /\ lastOp = "init"
    /\ \E txs \in IndexedTxLists :
         \E h \in IndexedHeaders(treeRule, txs) :
            block' = Some(new(h, txs))
    /\ lastOp' = "new"
    /\ ctor' = "new"
    /\ UNCHANGED <<treeRule, whitelist, rawOut, ret, diag, aborted, input,
                   consumed, passes>>

\* from_raw on the block into_raw_block returned
FromRawAgain ==
    /\ ~aborted
    /\ IsSome(rawOut)
    /\ passes < MaxPasses
    /\ Construct(from_raw(treeRule, Unwrap(rawOut)), Unwrap(rawOut), "from_raw")

Number ==
    /\ ~aborted
    /\ IsSome(block)
    /\ ret' = [NoRet EXCEPT !.number = number(Unwrap(block))]
    /\ diag' = <<>>
    /\ lastOp' = "number"
    /\ UNCHANGED <<treeRule, whitelist, block, rawOut, aborted, ctor, input,
                   consumed, passes>>

BlockId ==
    /\ ~aborted
    /\ IsSome(block)
    /\ LET id == block_id(Unwrap(block))
       IN  ret' = [NoRet EXCEPT !.number = id.number, !.bytes = id.hash]
    /\ diag' = <<>>
    /\ lastOp' = "block_id"
    /\ UNCHANGED <<treeRule, whitelist, block, rawOut, aborted, ctor, input,
                   consumed, passes>>

MerkleRootHash ==
    /\ ~aborted
    /\ IsSome(block)
    /\ LET r == merkle_root_hash(Unwrap(block))
       IN  /\ aborted' = r.panics
           /\ ret' = IF r.panics THEN NoRet
                     ELSE [NoRet EXCEPT !.bytes = Unwrap(r.value)]
    /\ diag' = <<>>
    /\ lastOp' = "merkle_root_hash"
    /\ UNCHANGED <<treeRule, whitelist, block, rawOut, ctor, input, consumed,
                   passes>>

VerifyMerkleRootHash ==
    /\ ~aborted
    /\ IsSome(block)
    /\ LET r == verify_merkle_root_hash(BLOCK_WHITELIST, treeRule, Unwrap(block))
       IN  /\ aborted' = r.panics
           /\ ret' = IF r.panics THEN NoRet
                     ELSE [NoRet EXCEPT !.ok = Unwrap(r.value).value]
           /\ diag' = IF r.panics THEN <<>> ELSE Unwrap(r.value).lines
           /\ block' = IF r.panics THEN block ELSE Some(Unwrap(r.value).self)
    \* the first use of the lazy static builds the set
    /\ whitelist' = Some(BLOCK_WHITELIST)
    /\ lastOp' = "verify_merkle_root_hash"
    /\ UNCHANGED <<treeRule, rawOut, ctor, input, consumed, passes>>

IntoRawBlock ==
    /\ ~aborted
    /\ IsSome(block)
    /\ rawOut' = Some(into_raw_block(Unwrap(block)))
    /\ consumed' = block
    /\ block' = None
    /\ ret' = NoRet
    /\ diag' = <<>>
    /\ lastOp' = "into_raw_block"
    /\ UNCHANGED <<treeRule, whitelist, aborted, ctor, input, passes>>

Next ==
    \/ FromRaw
    \/ FromHeaderAndTxns
    \/ New
    \/ FromRawAgain
    \/ Number
    \/ BlockId
    \/ MerkleRootHash
    \/ VerifyMerkleRootHash
    \/ IntoRawBlock

Spec == Init /\ [][Next]_vars

-----------------------------------------------------------------------------
(* What the properties speak of *)

Blk == Unwrap(block)
In == Unwrap(input)
InHeaderPresent == IsSome(input) /\ IsSome(In.block_header)
InRawDataPresent == InHeaderPresent /\ IsSome(Unwrap(In.block_header).raw_data)
InRawData == Unwrap(Unwrap(In.block_header).raw_data)
InRoot == InRawData.merkle_root_hash
JustConstructed == lastOp \in {"from_raw", "from_header_and_txns"}
Verified == lastOp = "verify_merkle_root_hash"
ComputedRootOf(txns) == merkle_root(treeRule, IndexTransactions(txns))
StoredRoot == Unwrap(Blk.header.raw.raw_data).merkle_root_hash
Whitelisted == WhitelistContains(BLOCK_WHITELIST, number(Blk))
\* the input's header with the root computed over the input's transactions
InHeaderWithComputedRoot ==
    [raw_data |-> Some([number |-> InRawData.number,
                        merkle_root_hash |-> ComputedRootOf(In.transactions),
                        timestamp |-> InRawData.timestamp])]

TypeOK ==
    /\ treeRule \in TreeRules
    /\ whitelist \in {None, Some(BLOCK_WHITELIST)}
    /\ Len(block) <= 1 /\ Len(rawOut) <= 1 /\ Len(input) <= 1 /\ Len(consumed) <= 1
    /\ aborted \in BOOLEAN
    /\ passes \in 0..(MaxPasses + 1)
    /\ IsSome(block) => Len(Blk.header.hash) = H256Len

-----------------------------------------------------------------------------
(* C1: from_raw on a header whose merkle-root field is non-empty returns a
   block whose merkle_root_hash() is that field, byte for byte, also when it
   is not the root of the block's transactions. *)
C1_NonEmptyRootUntouched ==
    (JustConstructed /\ InRawDataPresent /\ InRoot # <<>>) =>
        /\ ~aborted
        /\ IsSome(block)
        /\ merkle_root_hash(Blk) = Returned(InRoot)

C1_Witness ==
    /\ JustConstructed /\ InRawDataPresent /\ IsSome(block)
    /\ InRoot = Junk32
    /\ InRoot # ComputedRootOf(In.transactions)
    /\ merkle_root_hash(Blk) = Returned(Junk32)

(* C2: from_raw on a header whose merkle-root field is empty returns a block
   whose merkle_root_hash() is the root computed over the transactions in
   their order, and whose hash() is the hash of the header carrying that root,
   not the hash of the header with the empty field. *)
C2_EmptyRootBackfilledBeforeHashing ==
    (JustConstructed /\ InRawDataPresent /\ InRoot = <<>>) =>
        /\ ~aborted
        /\ IsSome(block)
        /\ [i \in 1..Len(Blk.transactions) |-> Blk.transactions[i].raw] = In.transactions
        /\ merkle_root_hash(Blk) = Returned(ComputedRootOf(In.transactions))
        /\ hash(Blk) = IndexedBlockHeader_from_raw(InHeaderWithComputedRoot).hash
        /\ hash(Blk) # IndexedBlockHeader_from_raw(Unwrap(In.block_header)).hash

C2_Witness ==
    /\ JustConstructed /\ InRawDataPresent /\ IsSome(block)
    /\ InRoot = <<>>
    /\ Len(In.transactions) = 3
    /\ StoredRoot = ComputedRootOf(In.transactions)
    /\ Len(StoredRoot) = H256Len

(* C3: verify_merkle_root_hash() returns false exactly when number() is not
   whitelisted and the stored root differs from the recomputed one, and true
   in every other case (stated for the blocks that have a stored root). *)
C3_VerifyReturnsTheComparison ==
    (Verified /\ IsSome(Blk.header.raw.raw_data)) =>
        /\ ~aborted
        /\ ret.ok = (Whitelisted \/ StoredRoot = merkle_root(treeRule, Blk.transactions))

(* C4, as claimed: into_raw_block(from_raw(raw)) equals raw, header and
   transactions, whatever the merkle-root field of raw holds. *)
C4_RoundTripExact ==
    (lastOp = "into_raw_block" /\ ctor = "from_raw") => rawOut = input

(* C4, amended: into_raw_block(from_raw(raw)) has the transactions of raw in
   their order and the header of raw, except that a merkle-root field that was
   empty in raw holds the root computed over the transactions; with a
   non-empty field the result equals raw. *)
C4_RoundTripUpToBackfill ==
    (lastOp = "into_raw_block" /\ ctor = "from_raw") =>
        /\ IsSome(rawOut)
        /\ InRawDataPresent
        /\ Unwrap(rawOut).transactions = In.transactions
        /\ IF InRoot # <<>>
           THEN Unwrap(rawOut) = In
           ELSE Unwrap(rawOut).block_header = Some(InHeaderWithComputedRoot)

C4_Witness ==
    /\ lastOp = "into_raw_block" /\ ctor = "from_raw"
    /\ InRoot = <<>>
    /\ Len(In.transactions) = 2
    /\ rawOut # input
    /\ Unwrap(rawOut).block_header = Some(InHeaderWithComputedRoot)

(* C5: from_raw on a block without a header panics and returns no
   IndexedBlock; every block from_raw or from_header_and_txns returns carries
   the header it was given. *)
C5_NoHeaderNoBlock ==
    JustConstructed =>
        /\ ~InHeaderPresent => (aborted /\ block = None)
        /\ aborted => block = None
        /\ IsSome(block) =>
              /\ InRawDataPresent
              /\ IsSome(Blk.header.raw.raw_data)
              /\ Unwrap(Blk.header.raw.raw_data).number = InRawData.number
              /\ Unwrap(Blk.header.raw.raw_data).timestamp = InRawData.timestamp

C5_Witness ==
    /\ lastOp = "from_raw"
    /\ ~IsSome(In.block_header)
    /\ Len(In.transactions) = 2
    /\ aborted
    /\ block = None

(* C6: a call of verify_merkle_root_hash() leaves the block as it was, header
   (stored root and cached hash) and transactions, whatever it returns, and
   the whitelist keeps its members. *)
C6_VerifyChangesNothing ==
    [][Verified' =>
          /\ block' = block
          /\ whitelist' = Some(BLOCK_WHITELIST)
          /\ UNCHANGED <<rawOut, input, consumed, treeRule>>]_vars

C6_Witness ==
    /\ Verified /\ ~aborted
    /\ ~Whitelisted
    /\ ret.ok = FALSE
    /\ StoredRoot = Junk32
    /\ Len(diag) = 2

(* C7: number() is the first 8 bytes of the hash read big-endian as a u64 and
   taken as an i64 (negative from a first byte of 0x80 on); the other 24 bytes
   play no part; block_id() pairs that number with the 32 hash bytes. *)
C7_NumberIsHashPrefix ==
    (lastOp \in {"number", "block_id"}) =>
        LET n == ret.number
            prefix == SubSeq(Blk.header.hash, 1, PrefixLen)
        IN  /\ n.hi \in -(Pow16 \div 2)..(Pow16 \div 2 - 1)
            /\ n.mid \in 0..(Pow24 - 1)
            /\ n.lo \in 0..(Pow24 - 1)
            /\ write_u64(n) = prefix
            /\ (n.hi < 0) <=> (Blk.header.hash[1] >= 128)
            /\ prefix = <<0, 0, 0, 0, 0, 16, 210, 217>> => n = I64(0, 0, 1102553)
            /\ prefix = <<1, 2, 3, 4, 5, 6, 7, 8>> => n = I64(258, 197637, 395016)
            /\ prefix = <<128, 0, 0, 0, 0, 0, 0, 1>> => n = I64(-32768, 0, 1)
            /\ prefix = Repeat(255, PrefixLen) => n = SmallI64(-1)
            /\ lastOp = "block_id" =>
                  (ret.bytes = Blk.header.hash /\ Len(ret.bytes) = H256Len)

C7_Witness ==
    /\ lastOp = "number"
    /\ SubSeq(Blk.header.hash, 1, PrefixLen) = <<128, 0, 0, 0, 0, 0, 0, 1>>
    /\ Blk.header.hash[H256Len] = 171
    /\ ret.number = I64(-32768, 0, 1)

(* C8: verify_merkle_root_hash() on the block from_raw returns for a header
   with an empty merkle-root field returns true, for every transaction list,
   the empty one included. *)
C8_BackfilledBlockVerifies ==
    (Verified /\ ctor = "from_raw" /\ InRawDataPresent /\ InRoot = <<>>) =>
        (~aborted /\ ret.ok = TRUE)

C8_Witness ==
    /\ Verified /\ ctor = "from_raw" /\ InRawDataPresent
    /\ InRoot = <<>>
    /\ In.transactions = <<>>
    /\ ~Whitelisted
    /\ ~aborted /\ ret.ok = TRUE

(* C9: from_raw and from_header_and_txns also panic, returning no block, on a
   header whose raw_data is absent; merkle_root_hash() and
   verify_merkle_root_hash() panic on a block whose header has no raw_data. *)
C9_NoRawDataPanics ==
    /\ (JustConstructed /\ InHeaderPresent /\ ~InRawDataPresent) =>
          (aborted /\ block = None)
    /\ (lastOp \in {"merkle_root_hash", "verify_merkle_root_hash"}
        /\ ~IsSome(Blk.header.raw.raw_data)) =>
          (aborted /\ ret = NoRet)

C9_Witness ==
    /\ lastOp = "from_header_and_txns"
    /\ InHeaderPresent /\ ~InRawDataPresent
    /\ aborted
    /\ block = None

(* C10: from_raw(into_raw_block(from_raw(raw))) is from_raw(raw), header (raw
   header and cached hash) and transactions; and into_raw_block(from_raw(r))
   is r for every r that into_raw_block(from_raw(..)) returned. *)
C10_SecondPassChangesNothing ==
    /\ (lastOp = "from_raw" /\ passes >= 2) =>
          (~aborted /\ IsSome(block) /\ block = consumed)
    /\ (lastOp = "into_raw_block" /\ passes >= 2) => rawOut = input

C10_Witness ==
    /\ lastOp = "from_raw" /\ passes = 2
    /\ IsSome(block)
    /\ block = consumed
    /\ Len(Blk.transactions) = 3
    /\ StoredRoot = merkle_root(treeRule, Blk.transactions)

====
